---- MODULE Spec2Model ----
(***************************************************************************)
(* Model of daemon/networkdriver/portallocator (portallocator.go): the     *)
(* process-wide port pool, ip -> proto -> portMap{p, last}, its range      *)
(* discovery in init(), and RequestPort / ReleasePort / ReleaseAll under   *)
(* the package mutex.                                                      *)
(*                                                                         *)
(* Spec       one caller, one IP; every exported function is one atomic    *)
(*            action (lock, body, unlock).                                 *)
(* SpecMulti  one caller, several IPs (nil, empty, 0.0.0.0, 10.0.0.1) on   *)
(*            the range [49153, 49154].                                    *)
(* SpecConc   several goroutines; mutex.Lock, the critical section and     *)
(*            mutex.Unlock are separate steps.                             *)
(***************************************************************************)
EXTENDS Integers, Sequences, FiniteSets, TLC

VARIABLES
    procfile,        \* content of /proc/sys/net/ipv4/ip_local_port_range seen by init()
    beginPortRange,  \* package var beginPortRange
    endPortRange,    \* package var endPortRange
    globalMap,       \* package var globalMap: ip string -> proto -> portMap
    mutex,           \* package var mutex: 0 when free, else the goroutine holding it
    pc,              \* per goroutine: "idle", "lock", "cs", "unlock", "panicked"
    req,             \* per goroutine: the call it made last (function and arguments)
    res,             \* per goroutine: what that call returned
    held,            \* history: the <<ip string, proto, port>> handed out by a
                     \* successful RequestPort and not released since
    hit              \* history: whether the last call found what it named in the
                     \* table (its port in the Port Set; for ReleaseAll, any port)

vars == <<procfile, beginPortRange, endPortRange, globalMap, mutex, pc, req, res, held, hit>>

----------------------------------------------------------------------------
(* Bounds of the model *)

\* Most ports that may be allocated in the whole table at one time.
MaxAlloc == 3

\* The goroutines calling the package.
Threads == {1, 2}

\* The caller of Spec.
Main == 1

----------------------------------------------------------------------------
(* Constants of the package *)

DefaultPortRangeStart == 49153

DefaultPortRangeEnd == 65535

NoError == [kind |-> "nil", ip |-> "", port |-> 0]

ErrAllPortsAllocated == [kind |-> "all ports are allocated", ip |-> "", port |-> 0]

ErrUnknownProtocol == [kind |-> "unknown protocol", ip |-> "", port |-> 0]

\* The run-time panic of dereferencing a nil *portMap (not an error value:
\* the function does not return).
PanicNilDeref == [kind |-> "panic: nil pointer dereference", ip |-> "", port |-> 0]

\* Mutant of NewErrPortAlreadyAllocated: the port field is left at its zero value.
NewErrPortAlreadyAllocated_NoPort(ip, port) ==
    [kind |-> "ErrPortAlreadyAllocated", ip |-> ip, port |-> 0]

NewErrPortAlreadyAllocated(ip, port) ==
    [kind |-> "ErrPortAlreadyAllocated", ip |-> ip, port |-> port]

----------------------------------------------------------------------------
(* net.IP values and their text form *)

\* A net.IP is a byte slice; nil and the empty slice are different values.
NilIP == [isNil |-> TRUE, bytes |-> <<>>]

EmptyIP == [isNil |-> FALSE, bytes |-> <<>>]

IPv4(a, b, c, d) == [isNil |-> FALSE, bytes |-> <<a, b, c, d>>]

\* defaultIP = net.ParseIP("0.0.0.0")
defaultIP == IPv4(0, 0, 0, 0)

\* Mutant of ipString: every address gets the text of the default address.
ipString_Default(ip) == "0.0.0.0"

\* net.IP.String for the lengths the model uses: "<nil>" for a slice of
\* length 0, dotted decimal for four bytes.
ipString(ip) ==
    IF Len(ip.bytes) = 0
    THEN "<nil>"
    ELSE ToString(ip.bytes[1]) \o "." \o ToString(ip.bytes[2]) \o "."
         \o ToString(ip.bytes[3]) \o "." \o ToString(ip.bytes[4])

----------------------------------------------------------------------------
(* Range discovery: init() *)

Num(n) == [num |-> TRUE, val |-> n]

Junk == [num |-> FALSE, val |-> 0]

\* fmt.Fscanf(r, "%d\t%d", &start, &end) on the tab-separated fields of the
\* file: n is the number of verbs filled before the first field that is
\* missing or is no integer; err is set unless both were filled.
Fscanf(fields) ==
    LET ok1 == Len(fields) >= 1 /\ fields[1].num
        ok2 == ok1 /\ Len(fields) >= 2 /\ fields[2].num
    IN  [n     |-> IF ok2 THEN 2 ELSE IF ok1 THEN 1 ELSE 0,
         err   |-> ~ok2,
         start |-> IF ok1 THEN fields[1].val ELSE 0,
         end   |-> IF ok2 THEN fields[2].val ELSE 0]

\* Mutant of init: each bound is adopted as soon as it is parsed.
init_Partial(file) ==
    IF ~file.readable
    THEN <<DefaultPortRangeStart, DefaultPortRangeEnd>>
    ELSE LET s == Fscanf(file.fields)
         IN  <<IF s.n >= 1 THEN s.start ELSE DefaultPortRangeStart,
               IF s.n >= 2 THEN s.end ELSE DefaultPortRangeEnd>>

\* init(): the pair (beginPortRange, endPortRange) after package initialisation.
init(file) ==
    IF ~file.readable
    THEN <<DefaultPortRangeStart, DefaultPortRangeEnd>>
    ELSE LET s == Fscanf(file.fields)
         IN  IF s.n # 2 \/ s.err
             THEN <<DefaultPortRangeStart, DefaultPortRangeEnd>>
             ELSE <<s.start, s.end>>

GetPortRange == <<beginPortRange, endPortRange>>

----------------------------------------------------------------------------
(* The table *)

\* Mutant of newPortMap: the cursor starts at the lower bound.
newPortMap_FromStart == [p |-> {}, last |-> beginPortRange]

newPortMap == [p |-> {}, last |-> endPortRange]

newProtoMap == [proto \in {"tcp", "udp"} |-> newPortMap]

\* protomap[proto] of a Go map of pointers: nil when the key is missing.
IsNilPortMap(protomap, proto) == proto \notin DOMAIN protomap

\* globalMap[ipstr] = protomap
MapStore(gm, ipstr, protomap) ==
    [k \in DOMAIN gm \cup {ipstr} |-> IF k = ipstr THEN protomap ELSE gm[k]]

\* Mutant of HasPort: the lookup never finds the port.
HasPort_Never(pm, port) == FALSE

\* _, ok := pm.p[port]
HasPort(pm, port) == port \in pm.p

\* The loop of findPort, entered with the candidate port and the counter i.
RECURSIVE findPortLoop(_, _, _)
findPortLoop(pm, port, i) ==
    LET start == GetPortRange[1]
        end   == GetPortRange[2]
    IN  IF ~(i <= end - start)
        THEN [pm |-> pm, port |-> 0, err |-> ErrAllPortsAllocated]
        ELSE LET next == IF port + 1 > end THEN start ELSE port + 1
             IN  IF ~HasPort(pm, next)
                 THEN [pm   |-> [p |-> pm.p \cup {next}, last |-> next],
                       port |-> next,
                       err  |-> NoError]
                 ELSE findPortLoop(pm, next, i + 1)

\* Mutant of findPort: the scan tries one candidate fewer than the range holds.
findPort_ShortLap(pm) == findPortLoop(pm, pm.last, 1)

\* Mutant of findPort: the scan starts at the lower bound instead of after
\* the cursor.
findPort_FromStart(pm) == findPortLoop(pm, beginPortRange - 1, 0)

\* Mutant of findPort: the port is handed out but the cursor stays.
findPort_NoCursor(pm) ==
    LET f == findPortLoop(pm, pm.last, 0)
    IN  [f EXCEPT !.pm.last = pm.last]

\* Mutant of findPort: the set counts as full once it holds as many ports
\* as the range has.
findPort_CountFull(pm) ==
    IF Cardinality(pm.p) >= endPortRange - beginPortRange + 1
    THEN [pm |-> pm, port |-> 0, err |-> ErrAllPortsAllocated]
    ELSE findPortLoop(pm, pm.last, 0)

\* (pm *portMap) findPort()
findPort(pm) == findPortLoop(pm, pm.last, 0)

\* Lines 121-129: the table with the address's entry created when it has none.
WithEntry(gm, ip) ==
    LET ipstr == ipString(IF ip = NilIP THEN defaultIP ELSE ip)
    IN  IF ipstr \in DOMAIN gm THEN gm ELSE MapStore(gm, ipstr, newProtoMap)

\* Lines 121-143 of RequestPort: what it does once the protocol is accepted.
Allocate(gm, ip, proto, port) ==
    LET ip1      == IF ip = NilIP THEN defaultIP ELSE ip
        ipstr    == ipString(ip1)
        gm1      == WithEntry(gm, ip)
        protomap == gm1[ipstr]
        mapping  == protomap[proto]
    IN  IF port > 0
        THEN IF ~HasPort(mapping, port)
             THEN [gm   |-> [gm1 EXCEPT ![ipstr][proto].p = @ \cup {port}],
                   port |-> port,
                   err  |-> NoError]
             ELSE [gm   |-> gm1,
                   port |-> 0,
                   err  |-> NewErrPortAlreadyAllocated(ipstr, port)]
        ELSE LET f == findPort(mapping)
             IN  IF f.err # NoError
                 THEN [gm   |-> [gm1 EXCEPT ![ipstr][proto] = f.pm],
                       port |-> 0,
                       err  |-> f.err]
                 ELSE [gm   |-> [gm1 EXCEPT ![ipstr][proto] = f.pm],
                       port |-> f.port,
                       err  |-> NoError]

\* Mutant of RequestPortBody: the protocol is validated after the address's
\* entry has been created.
RequestPortBody_LateCheck(gm, ip, proto, port) ==
    IF proto # "tcp" /\ proto # "udp"
    THEN [gm |-> WithEntry(gm, ip), port |-> 0, err |-> ErrUnknownProtocol]
    ELSE Allocate(gm, ip, proto, port)

\* Mutant of RequestPortBody: a specific port that is granted becomes the
\* cursor.
RequestPortBody_MoveCursor(gm, ip, proto, port) ==
    IF proto # "tcp" /\ proto # "udp"
    THEN [gm |-> gm, port |-> 0, err |-> ErrUnknownProtocol]
    ELSE LET r     == Allocate(gm, ip, proto, port)
             ipstr == ipString(IF ip = NilIP THEN defaultIP ELSE ip)
         IN  IF port > 0 /\ r.err = NoError
             THEN [r EXCEPT !.gm[ipstr][proto].last = port]
             ELSE r

\* Mutant of RequestPortBody: every port other than 0 is a specific port.
RequestPortBody_NonZero(gm, ip, proto, port) ==
    IF proto # "tcp" /\ proto # "udp"
    THEN [gm |-> gm, port |-> 0, err |-> ErrUnknownProtocol]
    ELSE LET ipstr == ipString(IF ip = NilIP THEN defaultIP ELSE ip)
             gm1   == WithEntry(gm, ip)
         IN  IF port < 0 /\ ~HasPort(gm1[ipstr][proto], port)
             THEN [gm   |-> [gm1 EXCEPT ![ipstr][proto].p = @ \cup {port}],
                   port |-> port,
                   err  |-> NoError]
             ELSE Allocate(gm, ip, proto, port)

\* The body of RequestPort between Lock and the deferred Unlock: the new
\* table and the two results.
RequestPortBody(gm, ip, proto, port) ==
    IF proto # "tcp" /\ proto # "udp"
    THEN [gm |-> gm, port |-> 0, err |-> ErrUnknownProtocol]
    ELSE Allocate(gm, ip, proto, port)

\* Mutant of ReleasePortBody: the port stays in the set.
ReleasePortBody_NoDelete(gm, ip, proto, port) ==
    LET ipstr == ipString(IF ip = NilIP THEN defaultIP ELSE ip)
    IN  IF ipstr \in DOMAIN gm /\ IsNilPortMap(gm[ipstr], proto)
        THEN [gm |-> gm, port |-> 0, err |-> PanicNilDeref]
        ELSE [gm |-> gm, port |-> 0, err |-> NoError]

\* Mutant of ReleasePortBody: the address's entry is created when it has
\* none, as RequestPort does.
ReleasePortBody_Create(gm, ip, proto, port) ==
    LET ipstr == ipString(IF ip = NilIP THEN defaultIP ELSE ip)
        gm1   == WithEntry(gm, ip)
    IN  IF IsNilPortMap(gm1[ipstr], proto)
        THEN [gm |-> gm1, port |-> 0, err |-> PanicNilDeref]
        ELSE [gm   |-> [gm1 EXCEPT ![ipstr][proto].p = @ \ {port}],
              port |-> 0,
              err  |-> NoError]

\* Mutant of ReleasePortBody: a nil ip is not replaced by defaultIP.
ReleasePortBody_NoDefault(gm, ip, proto, port) ==
    LET ipstr == ipString(ip)
    IN  IF ipstr \notin DOMAIN gm
        THEN [gm |-> gm, port |-> 0, err |-> NoError]
        ELSE IF IsNilPortMap(gm[ipstr], proto)
             THEN [gm |-> gm, port |-> 0, err |-> PanicNilDeref]
             ELSE [gm   |-> [gm EXCEPT ![ipstr][proto].p = @ \ {port}],
                   port |-> 0,
                   err  |-> NoError]

\* Mutant of ReleasePortBody: the cursor is put back before the released
\* port.
ReleasePortBody_Rewind(gm, ip, proto, port) ==
    LET ip1   == IF ip = NilIP THEN defaultIP ELSE ip
        ipstr == ipString(ip1)
        back  == IF port = beginPortRange THEN endPortRange ELSE port - 1
    IN  IF ipstr \notin DOMAIN gm
        THEN [gm |-> gm, port |-> 0, err |-> NoError]
        ELSE IF IsNilPortMap(gm[ipstr], proto)
             THEN [gm |-> gm, port |-> 0, err |-> PanicNilDeref]
             ELSE [gm   |-> [gm EXCEPT ![ipstr][proto] =
                                [p    |-> @.p \ {port},
                                 last |-> IF port \in @.p THEN back ELSE @.last]],
                   port |-> 0,
                   err  |-> NoError]

\* The body of ReleasePort.
ReleasePortBody(gm, ip, proto, port) ==
    LET ip1   == IF ip = NilIP THEN defaultIP ELSE ip
        ipstr == ipString(ip1)
    IN  IF ipstr \notin DOMAIN gm
        THEN [gm |-> gm, port |-> 0, err |-> NoError]
        ELSE IF IsNilPortMap(gm[ipstr], proto)
             THEN [gm |-> gm, port |-> 0, err |-> PanicNilDeref]
             ELSE [gm   |-> [gm EXCEPT ![ipstr][proto].p = @ \ {port}],
                   port |-> 0,
                   err  |-> NoError]

\* Mutant of ReleaseAllBody: every Port Set is emptied in place; the entries
\* and their cursors stay.
ReleaseAllBody_KeepEntries(gm) ==
    [gm   |-> [k \in DOMAIN gm |->
                 [proto \in {"tcp", "udp"} |-> [p |-> {}, last |-> gm[k][proto].last]]],
     port |-> 0,
     err  |-> NoError]

\* The body of ReleaseAll: globalMap = ipMapping{}.
ReleaseAllBody(gm) ==
    [gm |-> [k \in {} |-> newProtoMap], port |-> 0, err |-> NoError]

----------------------------------------------------------------------------
(* Inputs *)

File(fields) == [readable |-> TRUE, fields |-> fields]

Unreadable == [readable |-> FALSE, fields |-> <<>>]

\* The contents of the kernel parameter the model starts from.
ProcFiles ==
    { File(<<Num(49153), Num(49153)>>),
      File(<<Num(49153), Num(49154)>>),
      File(<<Num(49153), Num(49155)>>) }

IPs == {IPv4(10, 0, 0, 1)}

Protos == {"tcp", "udp", "sctp"}

\* Port arguments: 0 ("any"), a negative number, a port outside every range
\* of ProcFiles, and the first two ports and the last port of the range.
Ports == {-1, 0, 80, beginPortRange, beginPortRange + 1, endPortRange}

\* The inputs of SpecMulti.
MultiIPs == {NilIP, EmptyIP, defaultIP, IPv4(10, 0, 0, 1)}

MultiProtos == {"tcp", "udp"}

MultiPorts == {0, 80}

\* The inputs of SpecConc.
ConcProtos == {"tcp", "sctp"}

ConcPorts == {0, beginPortRange, endPortRange}

\* Number of ports held in the whole table.
RECURSIVE SumCard(_, _)
SumCard(gm, keys) ==
    IF keys = {} THEN 0
    ELSE LET k == CHOOSE x \in keys : TRUE
         IN  Cardinality(gm[k]["tcp"].p) + Cardinality(gm[k]["udp"].p)
             + SumCard(gm, keys \ {k})

Allocated(gm) == SumCard(gm, DOMAIN gm)

NoCall == [op |-> "none", ip |-> NilIP, proto |-> "", port |-> 0]

NoResult == [port |-> 0, err |-> NoError]

Call(op, ip, proto, port) == [op |-> op, ip |-> ip, proto |-> proto, port |-> port]

\* The map key a call works on.
KeyOf(ip) == ipString(IF ip = NilIP THEN defaultIP ELSE ip)

\* What a call does to the table and what it returns.
Body(gm, c) ==
    CASE c.op = "RequestPort" -> RequestPortBody(gm, c.ip, c.proto, c.port)
      [] c.op = "ReleasePort" -> ReleasePortBody(gm, c.ip, c.proto, c.port)
      [] c.op = "ReleaseAll"  -> ReleaseAllBody(gm)

\* The history of what the callers hold, from the calls and their results
\* alone (not from the table).
HeldAfter(h, c, r) ==
    CASE c.op = "RequestPort" ->
             IF r.err = NoError THEN h \cup {<<KeyOf(c.ip), c.proto, r.port>>} ELSE h
      [] c.op = "ReleasePort" ->
             IF r.err = NoError THEN h \ {<<KeyOf(c.ip), c.proto, c.port>>} ELSE h
      [] c.op = "ReleaseAll"  -> {}

\* Whether the call finds what it names in the table.
HitOf(gm, c) ==
    CASE c.op = "ReleaseAll" -> Allocated(gm) > 0
      [] OTHER ->
             /\ KeyOf(c.ip) \in DOMAIN gm
             /\ c.proto \in DOMAIN gm[KeyOf(c.ip)]
             /\ c.port \in gm[KeyOf(c.ip)][c.proto].p

\* An unrecovered panic ends the process: nothing runs afterwards.
Running == \A t \in Threads : pc[t] # "panicked"

----------------------------------------------------------------------------
(* Initial state: after package initialisation *)

Init ==
    /\ procfile \in ProcFiles
    /\ beginPortRange = init(procfile)[1]
    /\ endPortRange = init(procfile)[2]
    /\ globalMap = [k \in {} |-> newProtoMap]
    /\ mutex = 0
    /\ pc = [t \in Threads |-> "idle"]
    /\ req = [t \in Threads |-> NoCall]
    /\ res = [t \in Threads |-> NoResult]
    /\ held = {}
    /\ hit = FALSE

----------------------------------------------------------------------------
(* Spec: one caller, each function one action *)

Perform(t, op, ip, proto, port) ==
    /\ Running
    /\ pc[t] = "idle"
    /\ mutex = 0
    /\ LET c == Call(op, ip, proto, port)
           r == Body(globalMap, c)
       IN  /\ Allocated(r.gm) <= MaxAlloc
           /\ globalMap' = r.gm
           /\ req' = [req EXCEPT ![t] = c]
           /\ res' = [res EXCEPT ![t] = [port |-> r.port, err |-> r.err]]
           /\ pc' = [pc EXCEPT ![t] = IF r.err = PanicNilDeref THEN "panicked" ELSE @]
           /\ held' = HeldAfter(held, c, r)
           /\ hit' = HitOf(globalMap, c)
    /\ UNCHANGED <<procfile, beginPortRange, endPortRange, mutex>>

RequestPort(ip, proto, port) == Perform(Main, "RequestPort", ip, proto, port)

ReleasePort(ip, proto, port) == Perform(Main, "ReleasePort", ip, proto, port)

ReleaseAll == Perform(Main, "ReleaseAll", NilIP, "", 0)

Next ==
    \/ \E ip \in IPs, proto \in Protos, port \in Ports : RequestPort(ip, proto, port)
    \/ \E ip \in IPs, proto \in Protos, port \in Ports : ReleasePort(ip, proto, port)
    \/ ReleaseAll

Spec == Init /\ [][Next]_vars

----------------------------------------------------------------------------
(* SpecMulti: one caller, several IPs, range [49153, 49154] *)

InitMulti == Init /\ procfile = File(<<Num(49153), Num(49154)>>)

NextMulti ==
    \/ \E ip \in MultiIPs, proto \in MultiProtos, port \in MultiPorts : RequestPort(ip, proto, port)
    \/ \E ip \in MultiIPs, proto \in MultiProtos, port \in MultiPorts : ReleasePort(ip, proto, port)
    \/ ReleaseAll

SpecMulti == InitMulti /\ [][NextMulti]_vars

----------------------------------------------------------------------------
(* SpecConc: goroutines contending for the mutex *)

\* A goroutine calls one of the three functions and arrives at mutex.Lock().
Enter(t, op, ip, proto, port) ==
    /\ Running
    /\ pc[t] = "idle"
    /\ pc' = [pc EXCEPT ![t] = "lock"]
    /\ req' = [req EXCEPT ![t] = Call(op, ip, proto, port)]
    /\ UNCHANGED <<procfile, beginPortRange, endPortRange, globalMap, mutex, res, held, hit>>

\* mutex.Lock() returns.
Lock(t) ==
    /\ Running
    /\ pc[t] = "lock"
    /\ mutex = 0
    /\ mutex' = t
    /\ pc' = [pc EXCEPT ![t] = "cs"]
    /\ UNCHANGED <<procfile, beginPortRange, endPortRange, globalMap, req, res, held, hit>>

\* The statements between Lock and Unlock.
CriticalSection(t) ==
    /\ Running
    /\ pc[t] = "cs"
    /\ LET r == Body(globalMap, req[t])
       IN  /\ Allocated(r.gm) <= MaxAlloc
           /\ globalMap' = r.gm
           /\ res' = [res EXCEPT ![t] = [port |-> r.port, err |-> r.err]]
           /\ held' = HeldAfter(held, req[t], r)
           /\ hit' = HitOf(globalMap, req[t])
    /\ pc' = [pc EXCEPT ![t] = "unlock"]
    /\ UNCHANGED <<procfile, beginPortRange, endPortRange, mutex, req>>

\* mutex.Unlock() placed on the success path only.
Unlock_SkipOnError(t) ==
    /\ Running
    /\ pc[t] = "unlock"
    /\ mutex' = IF res[t].err = NoError THEN 0 ELSE mutex
    /\ pc' = [pc EXCEPT ![t] = IF res[t].err = PanicNilDeref THEN "panicked" ELSE "idle"]
    /\ UNCHANGED <<procfile, beginPortRange, endPortRange, globalMap, req, res, held, hit>>

\* mutex.Unlock() (deferred in RequestPort and ReleasePort: it also runs
\* while a panic unwinds), then the return to the caller.
Unlock(t) ==
    /\ Running
    /\ pc[t] = "unlock"
    /\ mutex' = 0
    /\ pc' = [pc EXCEPT ![t] = IF res[t].err = PanicNilDeref THEN "panicked" ELSE "idle"]
    /\ UNCHANGED <<procfile, beginPortRange, endPortRange, globalMap, req, res, held, hit>>

NextConc ==
    \/ \E t \in Threads, ip \in IPs, proto \in ConcProtos, port \in ConcPorts :
           Enter(t, "RequestPort", ip, proto, port)
    \/ \E t \in Threads, ip \in IPs, proto \in ConcProtos, port \in ConcPorts \ {0} :
           Enter(t, "ReleasePort", ip, proto, port)
    \/ \E t \in Threads : Enter(t, "ReleaseAll", NilIP, "", 0)
    \/ \E t \in Threads : Lock(t)
    \/ \E t \in Threads : CriticalSection(t)
    \/ \E t \in Threads : Unlock(t)

SpecConc == InitMulti /\ [][NextConc]_vars

----------------------------------------------------------------------------
(* SpecInit: one caller, every outcome of reading the kernel parameter *)

\* The kernel parameter missing, empty, malformed, cut short, and well-formed.
InitFiles ==
    { Unreadable,
      File(<<>>),
      File(<<Junk>>),
      File(<<Num(32768)>>),
      File(<<Num(32768), Junk>>),
      File(<<Junk, Num(32769)>>),
      File(<<Num(32768), Num(32769)>>),
      File(<<Num(32768), Num(32769), Num(7)>>) }

InitInit ==
    /\ procfile \in InitFiles
    /\ beginPortRange = init(procfile)[1]
    /\ endPortRange = init(procfile)[2]
    /\ globalMap = [k \in {} |-> newProtoMap]
    /\ mutex = 0
    /\ pc = [t \in Threads |-> "idle"]
    /\ req = [t \in Threads |-> NoCall]
    /\ res = [t \in Threads |-> NoResult]
    /\ held = {}
    /\ hit = FALSE

NextInit ==
    \/ \E ip \in IPs, proto \in MultiProtos, port \in MultiPorts : RequestPort(ip, proto, port)
    \/ \E ip \in IPs, proto \in MultiProtos, port \in MultiPorts : ReleasePort(ip, proto, port)
    \/ ReleaseAll

SpecInit == InitInit /\ [][NextInit]_vars

----------------------------------------------------------------------------
(* Vocabulary of the properties *)

Valid == {"tcp", "udp"}

\* The text of the addresses the callers pass, written out.
TextOf(ip) ==
    CASE ip = IPv4(10, 0, 0, 1) -> "10.0.0.1"
      [] ip = defaultIP -> "0.0.0.0"
      [] ip = NilIP -> "0.0.0.0"

\* A Port Set nobody has touched: no ports, cursor at the upper bound.
FreshSet == [p |-> {}, last |-> endPortRange]

\* The Port Set of (ip text, proto) in table gm; a fresh one while the
\* address has no entry.
SetOf(gm, text, proto) ==
    IF text \in DOMAIN gm THEN gm[text][proto] ELSE FreshSet

Range == beginPortRange..endPortRange

Ok(port) == [port |-> port, err |-> NoError]

Failed(err) == [port |-> 0, err |-> err]

\* The step is this call by the caller of Spec and SpecMulti.
Calls(op, ip, proto, port) == req'[Main] = Call(op, ip, proto, port)

CallsReleaseAll == req'[Main] = Call("ReleaseAll", NilIP, "", 0)

\* The caller's previous call was this one.
Called(op, ip, proto, port) == req[Main] = Call(op, ip, proto, port)

----------------------------------------------------------------------------
(* C2 *)

\* C2: for every ip, protocol in {tcp, udp} and port > 0, RequestPort of a
\* port that is not in the Port Set returns exactly that port with no error
\* and inserts it; RequestPort of a port that is in the set (requested
\* before and not released) returns port 0 with AlreadyAllocated carrying
\* the ip as text and the port, and leaves the table unchanged.
C2_SpecificPort ==
    [][\A ip \in IPs, proto \in Valid, port \in Ports :
          (port > 0 /\ Calls("RequestPort", ip, proto, port)) =>
              LET old == SetOf(globalMap, TextOf(ip), proto)
                  new == SetOf(globalMap', TextOf(ip), proto)
              IN  IF port \notin old.p
                  THEN /\ res'[Main] = Ok(port)
                       /\ new.p = old.p \cup {port}
                  ELSE /\ res'[Main] =
                              Failed([kind |-> "ErrPortAlreadyAllocated",
                                      ip |-> TextOf(ip), port |-> port])
                       /\ globalMap' = globalMap]_vars

\* A second request for 10.0.0.1/tcp/80 right after a first one that
\* succeeded has failed with AlreadyAllocated{"10.0.0.1", 80}.
C2_Witness ==
    /\ req[Main] = Call("RequestPort", IPv4(10, 0, 0, 1), "tcp", 80)
    /\ res[Main].err = [kind |-> "ErrPortAlreadyAllocated", ip |-> "10.0.0.1", port |-> 80]
    /\ res[Main].port = 0
    /\ hit
    /\ <<"10.0.0.1", "tcp", 80>> \in held

----------------------------------------------------------------------------
(* C3 *)

\* Position of port q in the cyclic order last+1, ..., end, start, ..., last.
CyclicPos(q, last) == (q - last - 1) % (endPortRange - beginPortRange + 1)

\* C3: a port-0 RequestPort on a Port Set with cursor last returns the
\* first port of the cyclic order last+1, ..., end, start, ..., last that is
\* absent from the set, inserts it and sets last to it; it fails with
\* AllPortsAllocated exactly when every port of [start, end] is in the set.
C3_RoundRobin ==
    [][\A ip \in IPs, proto \in Valid :
          Calls("RequestPort", ip, proto, 0) =>
              LET old  == SetOf(globalMap, TextOf(ip), proto)
                  new  == SetOf(globalMap', TextOf(ip), proto)
                  free == {q \in Range : q \notin old.p}
              IN  IF free = {}
                  THEN res'[Main] = Failed(ErrAllPortsAllocated)
                  ELSE LET first == CHOOSE q \in free : \A r \in free :
                                        CyclicPos(q, old.last) <= CyclicPos(r, old.last)
                       IN  /\ res'[Main] = Ok(first)
                           /\ new.p = old.p \cup {first}
                           /\ new.last = first]_vars

\* A search has wrapped: with the cursor in the middle of [49153, 49155]
\* and the port after it taken, it returned the first port of the range.
C3_Witness ==
    /\ endPortRange = beginPortRange + 2
    /\ req[Main] = Call("RequestPort", IPv4(10, 0, 0, 1), "tcp", 0)
    /\ res[Main] = Ok(beginPortRange)
    /\ "10.0.0.1" \in DOMAIN globalMap
    /\ globalMap["10.0.0.1"]["tcp"] =
           [p |-> {beginPortRange, endPortRange}, last |-> beginPortRange]

----------------------------------------------------------------------------
(* C4 *)

C4Call == Call("RequestPort", IPv4(10, 0, 0, 1), "tcp", 0)

\* The table holding only 10.0.0.1, its tcp set as given and its udp set fresh.
C4Pool(ports, last) ==
    [k \in {"10.0.0.1"} |->
        [proto \in {"tcp", "udp"} |->
            IF proto = "tcp" THEN [p |-> ports, last |-> last]
            ELSE [p |-> {}, last |-> 49154]]]

\* On the range [49153, 49154], the three port-0 requests for 10.0.0.1/tcp
\* that start from a pool without entries: the first returns `first`, the
\* second `second`, the third fails with AllPortsAllocated.
C4Scenario(first, second) ==
    (beginPortRange = 49153 /\ endPortRange = 49154 /\ req'[Main] = C4Call) =>
        /\ DOMAIN globalMap = {} =>
               /\ res'[Main] = Ok(first)
               /\ globalMap' = C4Pool({first}, first)
        /\ (DOMAIN globalMap # {} /\ globalMap = C4Pool({first}, first)) =>
               /\ res'[Main] = Ok(second)
               /\ globalMap' = C4Pool({first, second}, second)
        /\ (DOMAIN globalMap # {} /\ globalMap = C4Pool({first, second}, second)) =>
               /\ res'[Main] = Failed(ErrAllPortsAllocated)
               /\ globalMap' = globalMap

\* C4 as claimed: with range [49153, 49154] and a fresh pool,
\* RequestPort(10.0.0.1, tcp, 0) first returns 49154, a second call returns
\* the other port, a third fails with AllPortsAllocated.
C4_Claimed == [][C4Scenario(49154, 49153)]_vars

\* C4 amended: with range [49153, 49154] and a fresh pool,
\* RequestPort(10.0.0.1, tcp, 0) first returns 49153 (the cursor starts at
\* the upper bound and the search wraps to the lower bound), a second call
\* returns 49154, a third fails with AllPortsAllocated.
C4_Amended == [][C4Scenario(49153, 49154)]_vars

\* The third call has failed on the full range.
C4_Witness ==
    /\ beginPortRange = 49153
    /\ endPortRange = 49154
    /\ req[Main] = C4Call
    /\ res[Main] = Failed(ErrAllPortsAllocated)
    /\ DOMAIN globalMap # {}
    /\ globalMap = C4Pool({49153, 49154}, 49154)

----------------------------------------------------------------------------
(* C5 *)

\* C5: ReleasePort with a protocol outside {tcp, udp} returns no error and
\* leaves the table unchanged, for an IP that was never seen and for an IP
\* that has an entry.
C5_Claimed ==
    [][\A ip \in IPs, proto \in Protos \ Valid, port \in Ports :
          Calls("ReleasePort", ip, proto, port) =>
              /\ res'[Main].err = NoError
              /\ pc'[Main] = "idle"
              /\ globalMap' = globalMap]_vars

----------------------------------------------------------------------------
(* C7 *)

\* C7: RequestPort with a protocol outside {tcp, udp} fails with
\* UnknownProtocol for every ip and every port, 0 included, and changes
\* nothing: no entry is created for the ip, no Port Set or cursor changes.
C7_UnknownProtocol ==
    [][\A ip \in IPs, proto \in Protos \ Valid, port \in Ports :
          Calls("RequestPort", ip, proto, port) =>
              /\ res'[Main] = Failed(ErrUnknownProtocol)
              /\ globalMap' = globalMap]_vars

\* A port-0 request with protocol sctp has failed on a pool that still has
\* no entry.
C7_Witness ==
    /\ req[Main] = Call("RequestPort", IPv4(10, 0, 0, 1), "sctp", 0)
    /\ res[Main] = Failed(ErrUnknownProtocol)
    /\ DOMAIN globalMap = {}

----------------------------------------------------------------------------
(* C6 *)

\* C6: once every port of [start, end] is in the Port Set of (ip, protocol),
\* as after end - start + 1 successful port-0 requests with no release, a
\* port-0 request fails with AllPortsAllocated; when one port of the full
\* range has then been released, the next port-0 request succeeds, returns
\* the released port and leaves the range full again, so that the request
\* after it fails.
C6_ExhaustReleaseReuse ==
    [][\A ip \in IPs, proto \in Valid :
          Calls("RequestPort", ip, proto, 0) =>
              LET old == SetOf(globalMap, TextOf(ip), proto)
                  new == SetOf(globalMap', TextOf(ip), proto)
              IN  /\ Range \subseteq old.p => res'[Main] = Failed(ErrAllPortsAllocated)
                  /\ \A p \in Range :
                        ( /\ Called("ReleasePort", ip, proto, p)
                          /\ hit
                          /\ Range \ {p} \subseteq old.p ) =>
                            /\ res'[Main] = Ok(p)
                            /\ Range \subseteq new.p]_vars

\* On [49153, 49155] the middle port of the full range has just been
\* released, and a port-0 request can follow.
C6_Witness ==
    /\ endPortRange = beginPortRange + 2
    /\ req[Main] = Call("ReleasePort", IPv4(10, 0, 0, 1), "tcp", beginPortRange + 1)
    /\ hit
    /\ "10.0.0.1" \in DOMAIN globalMap
    /\ globalMap["10.0.0.1"]["tcp"].p = {beginPortRange, endPortRange}
    /\ globalMap["10.0.0.1"]["tcp"].last = endPortRange
    /\ ENABLED RequestPort(IPv4(10, 0, 0, 1), "tcp", 0)

----------------------------------------------------------------------------
(* C8 *)

\* C8: after ReleasePort(ip, protocol, port) of an allocated port, a
\* specific-port RequestPort for the same (ip, protocol, port) that follows
\* it succeeds and returns that port, in every state the pool can reach (so
\* also after any number of earlier request/release cycles).
C8_ReleaseThenRequest ==
    [][\A ip \in IPs, proto \in Valid, port \in Ports :
          ( /\ port > 0
            /\ Called("ReleasePort", ip, proto, port)
            /\ hit
            /\ Calls("RequestPort", ip, proto, port) ) =>
              /\ res'[Main] = Ok(port)
              /\ port \in SetOf(globalMap', TextOf(ip), proto).p]_vars

\* Port 80 of 10.0.0.1/tcp was allocated and has just been released, and
\* the request for it can follow.
C8_Witness ==
    /\ req[Main] = Call("ReleasePort", IPv4(10, 0, 0, 1), "tcp", 80)
    /\ hit
    /\ res[Main] = Ok(0)
    /\ <<"10.0.0.1", "tcp", 80>> \notin held
    /\ ENABLED RequestPort(IPv4(10, 0, 0, 1), "tcp", 80)

----------------------------------------------------------------------------
(* C9 *)

\* C9: ReleasePort with protocol tcp or udp for a port that is not
\* allocated, or for an IP without an entry, returns no error and leaves the
\* whole table unchanged (no entry is created, no Port Set and no cursor
\* changes); a second release of the same port right after the first
\* changes nothing either.
C9_ReleaseNoop ==
    [][\A ip \in IPs, proto \in Valid, port \in Ports :
          Calls("ReleasePort", ip, proto, port) =>
              /\ res'[Main] = Ok(0)
              /\ ( \/ TextOf(ip) \notin DOMAIN globalMap
                   \/ port \notin SetOf(globalMap, TextOf(ip), proto).p
                   \/ Called("ReleasePort", ip, proto, port) ) =>
                     globalMap' = globalMap]_vars

\* A release for an address that has no entry has returned, and the table
\* still has no entry.
C9_Witness ==
    /\ req[Main] = Call("ReleasePort", IPv4(10, 0, 0, 1), "udp", 80)
    /\ res[Main] = Ok(0)
    /\ ~hit
    /\ DOMAIN globalMap = {}

----------------------------------------------------------------------------
(* C10 *)

\* C10: ReleaseAll never fails and leaves a table without entries, from any
\* state; every port that was held before it can then be requested
\* successfully, and a request that follows it is answered as on a fresh
\* pool: a specific port is granted, and the first port-0 request for any
\* (ip, protocol) returns the lower bound of the range.
C10_ReleaseAll ==
    [][/\ CallsReleaseAll =>
              /\ res'[Main] = Ok(0)
              /\ pc'[Main] = "idle"
              /\ DOMAIN globalMap' = {}
              /\ \A h \in held : \A ip \in MultiIPs :
                     KeyOf(ip) = h[1] =>
                         LET again == RequestPortBody(globalMap', ip, h[2], h[3])
                         IN  again.port = h[3] /\ again.err = NoError
       /\ \A ip \in MultiIPs, proto \in Valid, port \in MultiPorts :
              ( /\ req[Main] = Call("ReleaseAll", NilIP, "", 0)
                /\ Calls("RequestPort", ip, proto, port) ) =>
                  res'[Main] = Ok(IF port > 0 THEN port ELSE beginPortRange)]_vars

\* ReleaseAll has run on a table that held ports, and requests can follow.
C10_Witness ==
    /\ req[Main] = Call("ReleaseAll", NilIP, "", 0)
    /\ res[Main] = Ok(0)
    /\ hit
    /\ DOMAIN globalMap = {}
    /\ ENABLED RequestPort(NilIP, "tcp", 80)
    /\ ENABLED RequestPort(IPv4(10, 0, 0, 1), "udp", 0)

----------------------------------------------------------------------------
(* C1 *)

\* C1: in every interleaving of the goroutines, a RequestPort that succeeds
\* returns a port that no caller holds for that (ip, protocol): none that an
\* earlier request got and that no ReleasePort of it and no ReleaseAll has
\* given back since. A specific-port request succeeds exactly when nobody
\* holds the port, so of two concurrent requests for one free port one
\* succeeds and the other fails, and two concurrent port-0 requests get
\* different ports.
C1_NoDoubleAllocation ==
    [][\A t \in Threads :
          ( /\ pc[t] = "cs" /\ pc'[t] = "unlock"
            /\ req[t].op = "RequestPort" /\ req[t].proto \in Valid ) =>
              LET text  == TextOf(req[t].ip)
                  proto == req[t].proto
                  got   == res'[t]
              IN  /\ got.err = NoError => <<text, proto, got.port>> \notin held
                  /\ got.err = NoError => <<text, proto, got.port>> \in held'
                  /\ req[t].port > 0 =>
                         (got.err = NoError <=> <<text, proto, req[t].port>> \notin held)]_vars

\* Two goroutines have asked for the same specific port of 10.0.0.1/tcp at
\* the same time: one has got it and still holds the mutex, the other
\* waits at mutex.Lock.
C1_Witness ==
    \E t1 \in Threads, t2 \in Threads :
        /\ t1 # t2
        /\ req[t1] = Call("RequestPort", IPv4(10, 0, 0, 1), "tcp", beginPortRange)
        /\ req[t2] = req[t1]
        /\ pc[t1] = "unlock"
        /\ mutex = t1
        /\ res[t1] = Ok(beginPortRange)
        /\ pc[t2] = "lock"

----------------------------------------------------------------------------
(* C11 *)

\* The two ways of naming the default address.
DefaultArgs == {NilIP, defaultIP}

\* C11: a request with no IP (nil) is keyed under 0.0.0.0. RequestPort(nil,
\* proto, port) with port > 0 returns the port when the set of 0.0.0.0 lacks
\* it and fails with AlreadyAllocated{"0.0.0.0", port} otherwise, whether the
\* port was taken with nil or with the explicit address 0.0.0.0; and
\* ReleasePort with nil or 0.0.0.0 frees the port for both.
C11_DefaultAddress ==
    [][\A ip \in DefaultArgs, proto \in Valid, port \in MultiPorts :
          /\ (port > 0 /\ Calls("RequestPort", ip, proto, port)) =>
                 /\ "0.0.0.0" \in DOMAIN globalMap'
                 /\ port \in globalMap'["0.0.0.0"][proto].p
                 /\ IF port \in SetOf(globalMap, "0.0.0.0", proto).p
                    THEN res'[Main] = Failed([kind |-> "ErrPortAlreadyAllocated",
                                              ip |-> "0.0.0.0", port |-> port])
                    ELSE res'[Main] = Ok(port)
          /\ \A first \in DefaultArgs :
                 ( /\ port > 0
                   /\ Called("RequestPort", first, proto, port)
                   /\ Calls("RequestPort", ip, proto, port) ) =>
                     res'[Main] = Failed([kind |-> "ErrPortAlreadyAllocated",
                                          ip |-> "0.0.0.0", port |-> port])
          /\ Calls("ReleasePort", ip, proto, port) =>
                 /\ res'[Main] = Ok(0)
                 /\ port \notin SetOf(globalMap', "0.0.0.0", proto).p]_vars

\* RequestPort(nil, tcp, 80) has failed with AlreadyAllocated{"0.0.0.0", 80}
\* on a port that is held.
C11_Witness ==
    /\ req[Main] = Call("RequestPort", NilIP, "tcp", 80)
    /\ res[Main] = Failed([kind |-> "ErrPortAlreadyAllocated", ip |-> "0.0.0.0", port |-> 80])
    /\ hit
    /\ "0.0.0.0" \in DOMAIN globalMap
    /\ 80 \in globalMap["0.0.0.0"]["tcp"].p

(* C12 *)
\* The goroutines between mutex.Lock() and mutex.Unlock().
InCritical == {t \in Threads : pc[t] \in {"cs", "unlock"}}

\* C12: the lock gives mutual exclusion and is always released. At most
\* one call is inside its critical section, the lock is held exactly by
\* that call, and a goroutine whose call has returned (with success or
\* with any error) or has ended in a panic no longer holds it: with no
\* call in its critical section the lock is free for the next caller.
C12_MutualExclusion ==
    /\ Cardinality(InCritical) <= 1
    /\ \A t \in Threads : (mutex = t) <=> (t \in InCritical)
    /\ (InCritical = {}) => mutex = 0
    /\ \A t \in Threads :
           (Running /\ pc[t] = "lock" /\ InCritical = {}) => ENABLED Lock(t)

\* One call has returned AllPortsAllocated and the other goroutine holds
\* the lock afterwards.
C12_Witness ==
    /\ pc[1] = "idle"
    /\ req[1].op = "RequestPort"
    /\ res[1].err = ErrAllPortsAllocated
    /\ pc[2] = "cs"
    /\ mutex = 2


(* C13 *)
\* The step is a search (a request with no specific port) on (ip, proto)
\* that has found a port.
Searched(ip, proto) ==
    /\ \E port \in Ports : port <= 0 /\ Calls("RequestPort", ip, proto, port)
    /\ res'[Main].err = NoError

\* C13: the cursor of every existing Port Set lies within [start, end]. It
\* is `end` when the set is created, a successful search on the set puts it
\* on the port that search returns, and no other step moves it: so it is
\* `end` until the first successful search and the port of the most recent
\* successful search afterwards. (The code takes every request whose port is
\* not above 0 to the search.)
C13_CursorValue ==
    [][/\ \A k \in DOMAIN globalMap', proto \in Valid :
              globalMap'[k][proto].last \in Range
       /\ \A ip \in IPs, proto \in Valid :
              TextOf(ip) \in DOMAIN globalMap' =>
                  globalMap'[TextOf(ip)][proto].last =
                      IF Searched(ip, proto) THEN res'[Main].port
                      ELSE IF TextOf(ip) \in DOMAIN globalMap
                           THEN globalMap[TextOf(ip)][proto].last
                           ELSE endPortRange]_vars

\* After a search on tcp returned the lower bound, a specific request has
\* succeeded on tcp: the tcp cursor is still on the lower bound, and the
\* udp cursor, whose set only got specific ports, is still `end`.
C13_Witness ==
    /\ beginPortRange < endPortRange
    /\ req[Main] = Call("RequestPort", IPv4(10, 0, 0, 1), "tcp", 80)
    /\ res[Main] = Ok(80)
    /\ "10.0.0.1" \in DOMAIN globalMap
    /\ globalMap["10.0.0.1"]["tcp"].last = beginPortRange
    /\ globalMap["10.0.0.1"]["udp"].last = endPortRange
    /\ globalMap["10.0.0.1"]["udp"].p # {}

(* C14 *)
\* C14: the cursor of a Port Set changes only in a successful search on
\* that set. A specific-port request (granted or AlreadyAllocated), a search
\* that fails with AllPortsAllocated and a ReleasePort leave every cursor
\* where it was, and the failed search leaves the set as it was too.
C14_CursorFrame ==
    [][\A ip \in IPs, proto \in Valid :
          LET text == TextOf(ip)
              old  == SetOf(globalMap, text, proto)
              new  == SetOf(globalMap', text, proto)
          IN  /\ ( /\ text \in DOMAIN globalMap /\ text \in DOMAIN globalMap'
                   /\ new.last # old.last ) => Searched(ip, proto)
              /\ \A ip2 \in IPs, proto2 \in Protos, port \in Ports :
                     /\ (port > 0 /\ Calls("RequestPort", ip2, proto2, port)) =>
                            new.last = old.last
                     /\ Calls("ReleasePort", ip2, proto2, port) =>
                            new.last = old.last
                     /\ ( /\ port <= 0 /\ Calls("RequestPort", ip2, proto2, port)
                          /\ res'[Main] = Failed(ErrAllPortsAllocated) ) =>
                            new = old]_vars

\* A search has failed on a set whose cursor an earlier search had moved
\* to the lower bound: the cursor is still there.
C14_Witness ==
    /\ beginPortRange < endPortRange
    /\ req[Main] = Call("RequestPort", IPv4(10, 0, 0, 1), "tcp", 0)
    /\ res[Main] = Failed(ErrAllPortsAllocated)
    /\ "10.0.0.1" \in DOMAIN globalMap
    /\ globalMap["10.0.0.1"]["tcp"].last = beginPortRange
    /\ globalMap["10.0.0.1"]["tcp"].p = Range

(* C15 *)
\* The key of each address SpecMulti passes, written out: the empty IP has
\* a text of its own.
KeyText(ip) == IF ip = EmptyIP THEN "<nil>" ELSE TextOf(ip)

Keys == {"0.0.0.0", "<nil>", "10.0.0.1"}

\* C15: allocation state is independent per (IP, protocol). RequestPort and
\* ReleasePort on (ip, proto) leave the Port Set and cursor of every other
\* pair as they were, and their result is decided by the pair's own set: a
\* specific port is refused only when that set holds it, a search fails
\* only when that set holds the whole range. So one port number can be held
\* for tcp and udp of one IP and for two IPs, and an exhausted pair does not
\* fail the requests on another.
C15_PairsIndependent ==
    [][\A ip \in MultiIPs, proto \in MultiProtos, port \in MultiPorts :
          LET own == SetOf(globalMap, KeyText(ip), proto)
          IN  /\ (Calls("RequestPort", ip, proto, port) \/ Calls("ReleasePort", ip, proto, port)) =>
                     \A k \in Keys, q \in Valid :
                         <<k, q>> # <<KeyText(ip), proto>> =>
                             SetOf(globalMap', k, q) = SetOf(globalMap, k, q)
              /\ Calls("RequestPort", ip, proto, port) =>
                     IF port > 0
                     THEN (res'[Main] = Ok(port)) <=> (port \notin own.p)
                     ELSE (res'[Main].err = NoError) <=> (Range \ own.p # {})]_vars

\* 10.0.0.1/tcp holds the whole range, and a search on 0.0.0.0/tcp has
\* returned the lower bound, which 10.0.0.1/tcp holds as well.
C15_Witness ==
    /\ req[Main] = Call("RequestPort", defaultIP, "tcp", 0)
    /\ res[Main] = Ok(beginPortRange)
    /\ "10.0.0.1" \in DOMAIN globalMap
    /\ globalMap["10.0.0.1"]["tcp"].p = Range
    /\ "0.0.0.0" \in DOMAIN globalMap
    /\ globalMap["0.0.0.0"]["tcp"].p = {beginPortRange}

(* C16 *)
\* C16: an empty (zero-length, non-nil) IP is normalized to the key of the
\* default address like a missing one: a specific port requested with the
\* empty IP is recorded under "0.0.0.0", and a request of that port with
\* nil or 0.0.0.0 right after a request with the empty IP fails with
\* AlreadyAllocated{"0.0.0.0", port}.
C16_Claimed ==
    [][\A proto \in Valid, port \in MultiPorts :
          /\ (port > 0 /\ Calls("RequestPort", EmptyIP, proto, port)) =>
                 /\ "0.0.0.0" \in DOMAIN globalMap'
                 /\ port \in globalMap'["0.0.0.0"][proto].p
          /\ \A ip \in DefaultArgs :
                 ( /\ port > 0 /\ Called("RequestPort", EmptyIP, proto, port)
                   /\ Calls("RequestPort", ip, proto, port) ) =>
                     res'[Main] = Failed([kind |-> "ErrPortAlreadyAllocated",
                                          ip |-> "0.0.0.0", port |-> port])]_vars

(* C17 *)
\* The kernel parameter was read and its first two fields are integers.
TwoParsed ==
    /\ procfile.readable
    /\ Len(procfile.fields) >= 2
    /\ procfile.fields[1].num
    /\ procfile.fields[2].num

\* C17: range discovery adopts both bounds or neither. When the parameter
\* is read and two integers are parsed, (start, end) are those two values;
\* when it is missing, malformed or holds one number only, GetPortRange is
\* exactly the defaults (49153, 65535), never one discovered bound beside
\* one default; and the failure is not raised: the process runs on.
C17_BothOrNeither ==
    /\ TwoParsed =>
           GetPortRange = <<procfile.fields[1].val, procfile.fields[2].val>>
    /\ ~TwoParsed =>
           GetPortRange = <<DefaultPortRangeStart, DefaultPortRangeEnd>>
    /\ Running

\* The parameter held one number only, and a search then returned the
\* default lower bound.
C17_Witness ==
    /\ procfile = File(<<Num(32768)>>)
    /\ req[Main] = Call("RequestPort", IPv4(10, 0, 0, 1), "tcp", 0)
    /\ res[Main] = Ok(DefaultPortRangeStart)

(* C18 *)
\* C18: releasing a port does not make it the next one handed out. When
\* the port p the cursor stands on (the one the last search returned) has
\* just been released, the next search on the same (ip, proto) returns the
\* first free port after p in cyclic order, not p, as long as another port
\* of the range is free; it returns p only when p is the one free port. So
\* an entry whose set is empty again, with its cursor moved, answers a
\* search differently from an address with no entry, which gets `start`.
\* (First conjunct: the release takes p out and leaves the cursor on it;
\* second: what the search that follows returns.)
C18_ReleasedNotNext ==
    [][\A ip \in IPs, proto \in Valid, p \in Range :
          LET old    == SetOf(globalMap, TextOf(ip), proto)
              others == {q \in Range : q \notin old.p /\ q # p}
          IN  /\ ( /\ TextOf(ip) \in DOMAIN globalMap
                   /\ old.last = p
                   /\ Calls("ReleasePort", ip, proto, p) ) =>
                     SetOf(globalMap', TextOf(ip), proto) = [p |-> old.p \ {p}, last |-> p]
              /\ ( /\ TextOf(ip) \in DOMAIN globalMap
                   /\ old.last = p
                   /\ Called("ReleasePort", ip, proto, p)
                   /\ Calls("RequestPort", ip, proto, 0) ) =>
                  /\ IF others # {}
                     THEN /\ res'[Main].err = NoError
                          /\ res'[Main].port \in others
                          /\ \A r \in others :
                                 CyclicPos(res'[Main].port, p) <= CyclicPos(r, p)
                     ELSE res'[Main] = Ok(p)
                  /\ (old.p = {} /\ p # endPortRange) =>
                         res'[Main].port # beginPortRange]_vars

\* On [49153, 49155] a search returned the lower bound and the port has
\* been released: the entry's tcp set is empty with its cursor on the
\* lower bound, and the next search can run.
C18_Witness ==
    /\ endPortRange = beginPortRange + 2
    /\ req[Main] = Call("ReleasePort", IPv4(10, 0, 0, 1), "tcp", beginPortRange)
    /\ hit
    /\ "10.0.0.1" \in DOMAIN globalMap
    /\ globalMap["10.0.0.1"]["tcp"] = [p |-> {}, last |-> beginPortRange]
    /\ ENABLED RequestPort(IPv4(10, 0, 0, 1), "tcp", 0)

(* C19 *)
\* C19: a search returns only ports of [start, end], while a specific port
\* is not range-checked. A specific port outside the range (80) that is not
\* held is granted and recorded; the search never returns it and it does
\* not count toward exhaustion: the search fails exactly when the set holds
\* every port of the range, whatever else it holds. A held port inside the
\* range, however it was requested, is skipped by the search and counts.
C19_RangeOnlyForSearch ==
    [][\A ip \in IPs, proto \in Valid :
          LET old == SetOf(globalMap, TextOf(ip), proto)
              new == SetOf(globalMap', TextOf(ip), proto)
          IN  /\ Calls("RequestPort", ip, proto, 0) =>
                     /\ (res'[Main] = Failed(ErrAllPortsAllocated)) <=> (Range \subseteq old.p)
                     /\ res'[Main].err = NoError =>
                            /\ res'[Main].port \in Range
                            /\ res'[Main].port \notin old.p
                            /\ new.p \ Range = old.p \ Range
              /\ \A port \in Ports :
                     ( /\ port > 0 /\ port \notin Range /\ port \notin old.p
                       /\ Calls("RequestPort", ip, proto, port) ) =>
                         /\ res'[Main] = Ok(port)
                         /\ new.p = old.p \cup {port}]_vars

\* On [49153, 49154] the set held port 80 and the lower bound, as many
\* ports as the range has, and a search has still returned the upper bound.
C19_Witness ==
    /\ endPortRange = beginPortRange + 1
    /\ req[Main] = Call("RequestPort", IPv4(10, 0, 0, 1), "tcp", 0)
    /\ res[Main] = Ok(endPortRange)
    /\ "10.0.0.1" \in DOMAIN globalMap
    /\ globalMap["10.0.0.1"]["tcp"].p = {80, beginPortRange, endPortRange}

====
